---- MODULE Spec2Model ----
(***************************************************************************)
(* A model of the lushus-session crate: the Session aggregate              *)
(* (src/src/session.rs) over a SessionState (src/src/session_state.rs),    *)
(* with the serde_json encoding the Storage implementation applies to      *)
(* every value.                                                            *)
(*                                                                         *)
(* JSON text is a sequence of one-character strings.  A typed value is a   *)
(* record [ty, n, s]: an i64 carries n, a String carries s (a sequence of  *)
(* characters), an f64 carries in s its shortest decimal expansion         *)
(* ("42.0") or one of the tokens "inf", "-inf", "NaN" (so that 0.0 and     *)
(* -0.0 are two values), and a TupleKeyMap stands for a                    *)
(* non-empty HashMap<(i32, i32), i32>, which serde_json refuses to encode  *)
(* ("key must be a string").                                               *)
(***************************************************************************)
EXTENDS Integers, Sequences, FiniteSets, TLC

VARIABLES state, status, loaded, last, removed, mutations,
          backend, req, slast, saves

sessionVars == <<state, status, loaded, last, removed, mutations>>

storeVars == <<backend, req, slast, saves>>

vars == <<state, status, loaded, last, removed, mutations, backend, req, slast, saves>>

(***************************************************************************)
(* Bounds of the model and the inputs the operations are called with.      *)
(***************************************************************************)
MaxI64 == 0

Keys == {"user", "k"}

I64Values == ((-1) .. MaxI64) \cup {42}

StringValues == { <<"4", "2">>, <<"\"", "\n">> }

Types == {"i64", "String", "f64"}

Quote == "\""

Backslash == "\\"

DigitChars == <<"0", "1", "2", "3", "4", "5", "6", "7", "8", "9">>

DigitSet == {DigitChars[i] : i \in 1 .. 10}

I64(n) == [ty |-> "i64", n |-> n, s |-> <<>>]

Str(s) == [ty |-> "String", n |-> 0, s |-> s]

F64(dec) == [ty |-> "f64", n |-> 0, s |-> dec]

NonFinite == {<<"inf">>, <<"-inf">>, <<"NaN">>}

F64Values == {F64(<<"4", "2", ".", "0">>), F64(<<"inf">>)}

TupleKeyMap == [ty |-> "TupleKeyMap", n |-> 0, s |-> <<>>]

Unit == [ty |-> "unit", n |-> 0, s |-> <<>>]

EncodableValues ==
    {I64(n) : n \in I64Values} \cup {Str(s) : s \in StringValues} \cup F64Values

Values == EncodableValues \cup {TupleKeyMap}

(***************************************************************************)
(* serde_json::to_string                                                   *)
(***************************************************************************)
RECURSIVE NatToChars(_)
NatToChars(n) ==
    IF n < 10 THEN << DigitChars[n + 1] >>
    ELSE NatToChars(n \div 10) \o << DigitChars[(n % 10) + 1] >>

IntToChars(n) == IF n < 0 THEN <<"-">> \o NatToChars(-n) ELSE NatToChars(n)

\* Characters.  A printable character is a one-character string.  The control
\* characters U+0000-U+001F are "\t", "\n", "\f", "\r" and, for those TLA+ has
\* no literal for, the token "U+00XX"; a character above U+007E is the token
\* "U+XXXX", as is the grave accent U+0060, which a TLA+ string cannot hold.
HexLower == <<"0", "1", "2", "3", "4", "5", "6", "7", "8", "9", "a", "b", "c", "d", "e", "f">>

HexUpper == <<"0", "1", "2", "3", "4", "5", "6", "7", "8", "9", "A", "B", "C", "D", "E", "F">>

RECURSIVE HexToken(_, _)
HexToken(code, width) ==
    IF width = 0 /\ code = 0 THEN ""
    ELSE HexToken(code \div 16, IF width = 0 THEN 0 ELSE width - 1) \o HexUpper[(code % 16) + 1]

ControlTable ==
    <<
       "U+0000", "U+0001", "U+0002", "U+0003", "U+0004", "U+0005", "U+0006", "U+0007",
       "U+0008", "\t", "\n", "U+000B", "\f", "\r", "U+000E", "U+000F",
       "U+0010", "U+0011", "U+0012", "U+0013", "U+0014", "U+0015", "U+0016", "U+0017",
       "U+0018", "U+0019", "U+001A", "U+001B", "U+001C", "U+001D", "U+001E", "U+001F"
    >>

ControlChar(code) == ControlTable[code + 1]

ControlChars ==
    {
       "U+0000", "U+0001", "U+0002", "U+0003", "U+0004", "U+0005", "U+0006", "U+0007",
       "U+0008", "\t", "\n", "U+000B", "\f", "\r", "U+000E", "U+000F",
       "U+0010", "U+0011", "U+0012", "U+0013", "U+0014", "U+0015", "U+0016", "U+0017",
       "U+0018", "U+0019", "U+001A", "U+001B", "U+001C", "U+001D", "U+001E", "U+001F"
    }

ControlCode(c) == (CHOOSE i \in 1 .. 32 : ControlTable[i] = c) - 1

\* What serde_json writes for one character of a string.
EscapeChar(c) ==
    CASE c = Quote            -> <<Backslash, Quote>>
      [] c = Backslash        -> <<Backslash, Backslash>>
      [] c = ControlChar(8)   -> <<Backslash, "b">>
      [] c = "\t"             -> <<Backslash, "t">>
      [] c = "\n"             -> <<Backslash, "n">>
      [] c = "\f"             -> <<Backslash, "f">>
      [] c = "\r"             -> <<Backslash, "r">>
      [] c \in ControlChars   -> <<Backslash, "u", "0", "0",
                                   HexLower[(ControlCode(c) \div 16) + 1],
                                   HexLower[(ControlCode(c) % 16) + 1]>>
      [] OTHER                -> <<c>>

RECURSIVE EscapeChars(_)
EscapeChars(s) ==
    IF s = <<>> THEN <<>>
    ELSE EscapeChar(Head(s)) \o EscapeChars(Tail(s))

Zeros(n) == [i \in 1 .. n |-> "0"]

StripLeadingZeros(ds) ==
    IF \A i \in 1 .. Len(ds) : ds[i] = "0" THEN <<>>
    ELSE SubSeq(ds, CHOOSE i \in 1 .. Len(ds) :
                        ds[i] # "0" /\ \A j \in 1 .. (i - 1) : ds[j] = "0",
                Len(ds))

StripTrailingZeros(ds) ==
    IF \A i \in 1 .. Len(ds) : ds[i] = "0" THEN <<>>
    ELSE SubSeq(ds, 1, CHOOSE i \in 1 .. Len(ds) :
                           ds[i] # "0" /\ \A j \in (i + 1) .. Len(ds) : ds[j] = "0")

\* The first index of seq that holds a member of set, Len(seq) + 1 if none.
IndexOf(seq, set) ==
    IF \E i \in 1 .. Len(seq) : seq[i] \in set
    THEN CHOOSE i \in 1 .. Len(seq) :
             seq[i] \in set /\ \A j \in 1 .. (i - 1) : seq[j] \notin set
    ELSE Len(seq) + 1

\* What the code computes where the model does not follow it: a value the
\* model leaves undetermined.
Unmodelled(x) == CHOOSE r : r \notin {x}

\* The digits sig of a finite f64 and the place kk of its decimal point
\* (0.sig * 10^kk), as serde_json 1.0.148 writes them: the decimal expansion
\* abs while 1e-5 <= |x| < 1e16 or x is zero, exponent notation otherwise,
\* a positive exponent with its plus sign.  An f64 has at most 17
\* significant digits.
F64Format(abs, sig, kk) ==
    IF Len(sig) > 17 THEN Unmodelled(abs)
    ELSE IF sig = <<>> \/ (kk > -5 /\ kk <= 16) THEN abs
    ELSE (IF Len(sig) = 1 THEN sig ELSE <<sig[1], ".">> \o Tail(sig))
             \o (IF kk - 1 < 0 THEN <<"e">> \o IntToChars(kk - 1)
                 ELSE <<"e", "+">> \o NatToChars(kk - 1))

\* abs is the expansion int.frac of the magnitude.
F64Digits(abs, int, frac) ==
    IF int = <<"0">>
    THEN F64Format(abs, StripLeadingZeros(frac), Len(StripLeadingZeros(frac)) - Len(frac))
    ELSE F64Format(abs, StripTrailingZeros(int \o frac), Len(int))

UnsignedF64ToChars(abs) ==
    F64Digits(abs, SubSeq(abs, 1, IndexOf(abs, {"."}) - 1),
                   SubSeq(abs, IndexOf(abs, {"."}) + 1, Len(abs)))

\* What serde_json writes for a finite f64 given by its decimal expansion,
\* the shortest one that reads back as that f64.
FiniteF64ToChars(dec) ==
    IF dec[1] = "-" THEN <<"-">> \o UnsignedF64ToChars(Tail(dec))
    ELSE UnsignedF64ToChars(dec)

\* Result of serde_json::to_string: ok with the JSON text, or an encoder error.
\* A non-finite f64 is written as null, and that is no error.
to_string(value) ==
    CASE value.ty = "i64"    -> [ok |-> TRUE, raw |-> IntToChars(value.n)]
      [] value.ty = "String" -> [ok |-> TRUE, raw |-> <<Quote>> \o EscapeChars(value.s) \o <<Quote>>]
      [] value.ty = "f64"    -> [ok |-> TRUE,
                                 raw |-> IF value.s \in NonFinite THEN <<"n", "u", "l", "l">>
                                         ELSE FiniteF64ToChars(value.s)]
      [] OTHER               -> [ok |-> FALSE, raw |-> <<>>]

(***************************************************************************)
(* serde_json::from_str                                                    *)
(***************************************************************************)
RECURSIVE DigitsToNat(_)
DigitsToNat(ds) ==
    IF ds = <<>> THEN 0
    ELSE LET d == CHOOSE i \in 0 .. 9 : DigitChars[i + 1] = ds[Len(ds)]
         IN  10 * DigitsToNat(SubSeq(ds, 1, Len(ds) - 1)) + d

DecodeError == [ok |-> FALSE, val |-> Unit]

\* JSON whitespace, which from_str skips before the value and allows after it.
Whitespace == {" ", "\n", "\t", "\r"}

RECURSIVE TrimWs(_)
TrimWs(raw) ==
    IF raw = <<>> THEN raw
    ELSE IF Head(raw) \in Whitespace THEN TrimWs(Tail(raw))
    ELSE IF raw[Len(raw)] \in Whitespace THEN TrimWs(SubSeq(raw, 1, Len(raw) - 1))
    ELSE raw

\* The digits of the largest i64, and of the magnitude of the smallest.
I64MaxDigits ==
    <<"9", "2", "2", "3", "3", "7", "2", "0", "3", "6", "8", "5", "4", "7", "7", "5", "8", "0", "7">>

I64MinDigits ==
    <<"9", "2", "2", "3", "3", "7", "2", "0", "3", "6", "8", "5", "4", "7", "7", "5", "8", "0", "8">>

DigitValue(c) == CHOOSE i \in 0 .. 9 : DigitChars[i + 1] = c

\* a <= b for digit sequences without leading zeros.
DigitsLeq(a, b) ==
    \/ Len(a) < Len(b)
    \/ /\ Len(a) = Len(b)
       /\ \/ a = b
          \/ \E i \in 1 .. Len(a) :
                /\ DigitValue(a[i]) < DigitValue(b[i])
                /\ \A j \in 1 .. (i - 1) : a[j] = b[j]

\* The i64 of a sign and digits with no leading zero; -0 is read as the
\* float -0.0 and refused, as is a number outside the i64 range.  (A value
\* in range is computed as a TLC integer.)
ParseI64Digits(neg, digits) ==
    IF \/ digits = <<>>
       \/ \E i \in 1 .. Len(digits) : digits[i] \notin DigitSet
       \/ (Len(digits) > 1 /\ digits[1] = "0")
       \/ (neg /\ digits = <<"0">>)
       \/ ~DigitsLeq(digits, IF neg THEN I64MinDigits ELSE I64MaxDigits)
    THEN DecodeError
    ELSE [ok |-> TRUE,
          val |-> I64(IF neg THEN -DigitsToNat(digits) ELSE DigitsToNat(digits))]

ParseI64Text(text) ==
    IF Len(text) > 0 /\ text[1] = "-" THEN ParseI64Digits(TRUE, Tail(text))
    ELSE ParseI64Digits(FALSE, text)

\* from_str::<i64>
ParseI64(raw) == ParseI64Text(TrimWs(raw))

AllDigits(ds) == \A i \in 1 .. Len(ds) : ds[i] \in DigitSet

Sign(neg) == IF neg THEN <<"-">> ELSE <<>>

\* Integer digits without leading zeros, a point, fraction digits without
\* trailing zeros; at least one digit on each side.
DecimalOf(neg, int, frac) ==
    Sign(neg) \o (IF int = <<>> THEN <<"0">> ELSE int) \o <<".">>
              \o (IF frac = <<>> THEN <<"0">> ELSE frac)

\* serde_json turns the digits D (its significand) with the point after p
\* of them into an f64 by one multiplication or division by a power of ten.
\* That result is the f64 nearest to the decimal, and the decimal its
\* shortest expansion, when the significand has at most 15 digits and the
\* power is at most 10^22; beyond that the parser is not correctly rounded
\* and the model does not follow it.
Exact(D, p) ==
    /\ Len(StripLeadingZeros(D)) <= 15
    /\ p - Len(D) <= 22
    /\ Len(D) - p <= 22

\* The decimal expansion of 0.D * 10^p, D a digit sequence.
Decimal(neg, D, p) ==
    IF ~Exact(D, p) THEN Unmodelled(<<neg, D, p>>)
    ELSE IF p <= 0 THEN DecimalOf(neg, <<>>, StripTrailingZeros(Zeros(-p) \o D))
    ELSE IF p >= Len(D)
    THEN DecimalOf(neg, StripLeadingZeros(D \o Zeros(p - Len(D))), <<>>)
    ELSE DecimalOf(neg, StripLeadingZeros(SubSeq(D, 1, p)),
                        StripTrailingZeros(SubSeq(D, p + 1, Len(D))))

SignedZero(neg) == [ok |-> TRUE, val |-> F64(Sign(neg) \o <<"0", ".", "0">>)]

F64Scaled(neg, D, p) ==
    IF Exact(D, p) THEN [ok |-> TRUE, val |-> F64(Decimal(neg, D, p))]
    ELSE Unmodelled(<<neg, D, p>>)

\* The value of the digits D with the point after p of them and the exponent
\* of digits XS (no leading zeros), negative when eNeg.  A zero significand
\* is zero whatever the exponent.
F64Value(neg, D, p, eNeg, XS) ==
    IF StripLeadingZeros(D) = <<>> THEN SignedZero(neg)
    ELSE IF Len(XS) > 3 THEN Unmodelled(<<neg, D, p, eNeg, XS>>)
    ELSE IF eNeg THEN F64Scaled(neg, D, p - DigitsToNat(XS))
    ELSE F64Scaled(neg, D, p + DigitsToNat(XS))

\* A JSON number in its parts: integer digits I with no leading zero, a
\* fraction F of at least one digit when there is a point, an exponent X of
\* at least one digit when there is an exponent mark.
ParseParts(neg, I, hasFrac, F, hasExp, eNeg, X) ==
    IF /\ I # <<>> /\ AllDigits(I) /\ (Len(I) > 1 => I[1] # "0")
       /\ hasFrac => (F # <<>> /\ AllDigits(F))
       /\ hasExp => (X # <<>> /\ AllDigits(X))
       /\ (~hasFrac) => F = <<>>
       /\ (~hasExp) => X = <<>>
    THEN F64Value(neg, I \o F, Len(I), eNeg, StripLeadingZeros(X))
    ELSE DecodeError

ParseMantissa(neg, mant, dot, hasExp, expo) ==
    ParseParts(neg, SubSeq(mant, 1, dot - 1), dot <= Len(mant),
               SubSeq(mant, dot + 1, Len(mant)), hasExp,
               expo # <<>> /\ expo[1] = "-",
               IF expo # <<>> /\ expo[1] \in {"+", "-"} THEN Tail(expo) ELSE expo)

ParseExponent(neg, body, ePos) ==
    ParseMantissa(neg, SubSeq(body, 1, ePos - 1),
                  IndexOf(SubSeq(body, 1, ePos - 1), {"."}),
                  ePos <= Len(body), SubSeq(body, ePos + 1, Len(body)))

ParseNumber(text) ==
    IF text # <<>> /\ text[1] = "-"
    THEN ParseExponent(TRUE, Tail(text), IndexOf(Tail(text), {"e", "E"}))
    ELSE ParseExponent(FALSE, text, IndexOf(text, {"e", "E"}))

\* from_str::<f64>.  A JSON number: optional minus, integer digits with no
\* leading zero, optional fraction, optional exponent; null and every other
\* text is refused.  The value is the f64's shortest decimal expansion.
ParseF64(raw) == ParseNumber(TrimWs(raw))

AsciiChars ==
    <<
       " ", "!", "\"", "#", "$", "%", "&", "'", "(", ")", "*", "+",
       ",", "-", ".", "/", "0", "1", "2", "3", "4", "5", "6", "7",
       "8", "9", ":", ";", "<", "=", ">", "?", "@", "A", "B", "C",
       "D", "E", "F", "G", "H", "I", "J", "K", "L", "M", "N", "O",
       "P", "Q", "R", "S", "T", "U", "V", "W", "X", "Y", "Z", "[",
       "\\", "]", "^", "_", "U+0060", "a", "b", "c", "d", "e", "f", "g",
       "h", "i", "j", "k", "l", "m", "n", "o", "p", "q", "r", "s",
       "t", "u", "v", "w", "x", "y", "z", "{", "|", "}", "~"
    >>

IsHex(c) == \E i \in 1 .. 16 : c = HexLower[i] \/ c = HexUpper[i]

HexValue(c) == (CHOOSE i \in 1 .. 16 : c = HexLower[i] \/ c = HexUpper[i]) - 1

\* The character of a code point.
CodeToChar(code) ==
    IF code < 32 THEN ControlChar(code)
    ELSE IF code < 127 THEN AsciiChars[code - 31]
    ELSE "U+" \o HexToken(code, 4)

\* The four hex digits s[from .. from + 3] of a \u escape: ok and the code.
Hex4(s, from) ==
    IF Len(s) < from + 3 \/ \E i \in from .. (from + 3) : ~IsHex(s[i])
    THEN [ok |-> FALSE, code |-> 0]
    ELSE [ok |-> TRUE,
          code |-> 4096 * HexValue(s[from]) + 256 * HexValue(s[from + 1])
                     + 16 * HexValue(s[from + 2]) + HexValue(s[from + 3])]

BadEscape == [ok |-> FALSE, c |-> "", n |-> 0]

\* hi and lo are the codes of a leading surrogate and of the escape after it.
SurrogatePair(hi, lo) ==
    IF ~lo.ok \/ lo.code < 56320 \/ lo.code > 57343 THEN BadEscape
    ELSE [ok |-> TRUE,
          c  |-> CodeToChar(65536 + 1024 * (hi.code - 55296) + (lo.code - 56320)),
          n  |-> 12]

\* hi is the code of the \u escape at the head of s.
UnicodeEscape(s, hi) ==
    IF ~hi.ok THEN BadEscape
    ELSE IF hi.code >= 56320 /\ hi.code <= 57343 THEN BadEscape
    ELSE IF hi.code >= 55296 /\ hi.code <= 56319
    THEN IF Len(s) < 8 \/ s[7] # Backslash \/ s[8] # "u" THEN BadEscape
         ELSE SurrogatePair(hi, Hex4(s, 9))
    ELSE [ok |-> TRUE, c |-> CodeToChar(hi.code), n |-> 6]

\* The escape at the head of s (s[1] is the backslash): ok, the character it
\* stands for and the number of characters of s it takes.  A \u escape of a
\* leading surrogate needs the \u escape of a trailing one right after it.
ParseEscape(s) ==
    IF Len(s) < 2 THEN BadEscape
    ELSE CASE s[2] \in {Quote, Backslash, "/"} -> [ok |-> TRUE, c |-> s[2], n |-> 2]
           [] s[2] = "b" -> [ok |-> TRUE, c |-> ControlChar(8), n |-> 2]
           [] s[2] = "f" -> [ok |-> TRUE, c |-> "\f", n |-> 2]
           [] s[2] = "n" -> [ok |-> TRUE, c |-> "\n", n |-> 2]
           [] s[2] = "r" -> [ok |-> TRUE, c |-> "\r", n |-> 2]
           [] s[2] = "t" -> [ok |-> TRUE, c |-> "\t", n |-> 2]
           [] s[2] = "u" -> UnicodeEscape(s, Hex4(s, 3))
           [] OTHER -> BadEscape

BadString == [ok |-> FALSE, s |-> <<>>]

\* The character c before the unescaped rest.
Prepend(c, rest) == IF rest.ok THEN [ok |-> TRUE, s |-> <<c>> \o rest.s] ELSE BadString

RECURSIVE UnescapeChars(_)
\* e is the escape at the head of s.
UnescapeAfter(s, e) ==
    IF ~e.ok THEN BadString
    ELSE Prepend(e.c, UnescapeChars(SubSeq(s, e.n + 1, Len(s))))

\* The body of a JSON string literal, escapes resolved; ok is FALSE on a bare
\* quote, a raw control character or a dangling or unknown escape.
UnescapeChars(s) ==
    IF s = <<>> THEN [ok |-> TRUE, s |-> <<>>]
    ELSE IF Head(s) = Quote \/ Head(s) \in ControlChars THEN BadString
    ELSE IF Head(s) = Backslash THEN UnescapeAfter(s, ParseEscape(s))
    ELSE Prepend(Head(s), UnescapeChars(Tail(s)))

StringValue(body) == IF body.ok THEN [ok |-> TRUE, val |-> Str(body.s)] ELSE DecodeError

ParseStringText(text) ==
    IF Len(text) < 2 \/ text[1] # Quote \/ text[Len(text)] # Quote THEN DecodeError
    ELSE StringValue(UnescapeChars(SubSeq(text, 2, Len(text) - 1)))

\* from_str::<String>
ParseString(raw) == ParseStringText(TrimWs(raw))

\* Result of serde_json::from_str::<ty>: ok with the decoded value, or an error.
from_str(raw, ty) ==
    CASE ty = "i64"    -> ParseI64(raw)
      [] ty = "String" -> ParseString(raw)
      [] ty = "f64"    -> ParseF64(raw)
      [] OTHER         -> DecodeError

(***************************************************************************)
(* SessionState: a HashMap<String, String>, here a function whose domain   *)
(* is the set of keys present.                                             *)
(***************************************************************************)
EmptyState == [x \in {} |-> <<>>]

SomeRaw(raw) == [some |-> TRUE, raw |-> raw]

NoneRaw == [some |-> FALSE, raw |-> <<>>]

\* SessionState::insert that keeps a value already stored under the key.
SessionState_insert_KeepExisting(m, key, value) ==
    [x \in DOMAIN m \cup {key} |-> IF x \in DOMAIN m THEN m[x] ELSE value]

SessionState_insert(m, key, value) ==
    [x \in DOMAIN m \cup {key} |-> IF x = key THEN value ELSE m[x]]

\* SessionState::remove that empties the map after taking the value out.
SessionState_remove_Clear(m, key) ==
    [state  |-> EmptyState,
     result |-> IF key \in DOMAIN m THEN SomeRaw(m[key]) ELSE NoneRaw]

\* SessionState::remove that hands out the value and leaves the entry in place.
SessionState_remove_Keep(m, key) ==
    [state  |-> m,
     result |-> IF key \in DOMAIN m THEN SomeRaw(m[key]) ELSE NoneRaw]

SessionState_remove(m, key) ==
    [state  |-> [x \in DOMAIN m \ {key} |-> m[x]],
     result |-> IF key \in DOMAIN m THEN SomeRaw(m[key]) ELSE NoneRaw]

SessionState_get(m, key) ==
    IF key \in DOMAIN m THEN SomeRaw(m[key]) ELSE NoneRaw

(***************************************************************************)
(* SessionStatus and the results the operations return.                    *)
(***************************************************************************)
Statuses == {"Clean", "Changed", "Destroyed"}

DefaultStatus == "Clean"

OkUnit == [kind |-> "Ok", some |-> FALSE, val |-> Unit]

OkNone == [kind |-> "Ok", some |-> FALSE, val |-> Unit]

OkSome(v) == [kind |-> "Ok", some |-> TRUE, val |-> v]

SerializeError == [kind |-> "SerializeError", some |-> FALSE, val |-> Unit]

DeserializeError == [kind |-> "DeserializeError", some |-> FALSE, val |-> Unit]

SessionDestroyedError == [kind |-> "SessionDestroyedError", some |-> FALSE, val |-> Unit]

\* Option<String>.map(from_str).transpose().map_err(DeserializeError)
Decoded(d) == IF d.ok THEN OkSome(d.val) ELSE DeserializeError

DecodeOption(opt, ty) ==
    IF ~opt.some THEN OkNone ELSE Decoded(from_str(opt.raw, ty))

(***************************************************************************)
(* impl Storage<&str> for Session.  A session is [state, status]; every    *)
(* operation yields the session it leaves behind and the result returned.  *)
(***************************************************************************)
\* Storage::insert that clears the slot when the value cannot be encoded.
Storage_insert_ClearOnError(s, key, value) ==
    LET enc == to_string(value)
    IN  IF ~enc.ok
        THEN [session |-> [s EXCEPT !.state = SessionState_remove(s.state, key).state],
              result  |-> SerializeError]
        ELSE [session |-> [s EXCEPT !.state = SessionState_insert(s.state, key, enc.raw)],
              result  |-> OkUnit]

\* enc is what serde_json::to_string returned for the value.
InsertEncoded(s, key, enc) ==
    IF ~enc.ok
    THEN [session |-> s, result |-> SerializeError]
    ELSE [session |-> [s EXCEPT !.state = SessionState_insert(s.state, key, enc.raw)],
          result  |-> OkUnit]

Storage_insert(s, key, value) == InsertEncoded(s, key, to_string(value))

\* Storage::remove that decodes first and removes the entry only on success.
Storage_remove_DecodeFirst(s, key, ty) ==
    LET res == DecodeOption(SessionState_get(s.state, key), ty)
    IN  [session |-> IF res.kind = "Ok"
                     THEN [s EXCEPT !.state = SessionState_remove(s.state, key).state]
                     ELSE s,
         result  |-> res]

Storage_remove(s, key, ty) ==
    LET r == SessionState_remove(s.state, key)
    IN  [session |-> [s EXCEPT !.state = r.state],
         result  |-> DecodeOption(r.result, ty)]

Storage_get(s, key, ty) ==
    [session |-> s, result |-> DecodeOption(SessionState_get(s.state, key), ty)]

(***************************************************************************)
(* impl Session                                                            *)
(***************************************************************************)
\* Session::destroy that also drops the key/value state.
Session_destroy_Clearing(s) == [state |-> EmptyState, status |-> "Destroyed"]

\* Session::destroy that flips the status back when called on a destroyed session.
Session_destroy_Toggle(s) ==
    [s EXCEPT !.status = IF s.status = "Destroyed" THEN "Clean" ELSE "Destroyed"]

Session_destroy(s) == [s EXCEPT !.status = "Destroyed"]

Session_active(s) == s.status # "Destroyed"

\* Session::insert without the active() guard.
Session_insert_NoGuard(s, key, value) ==
    LET r == Storage_insert(s, key, value)
    IN  IF r.result.kind = "Ok"
        THEN [session |-> [r.session EXCEPT !.status = "Changed"], result |-> r.result]
        ELSE r

\* r is what the storage call returned: `?` returns its error, and after an
\* Ok the status is set to Changed.
MarkChanged(r) ==
    IF r.result.kind = "Ok"
    THEN [session |-> [r.session EXCEPT !.status = "Changed"], result |-> r.result]
    ELSE r

Session_insert(s, key, value) ==
    IF Session_active(s)
    THEN MarkChanged(Storage_insert(s, key, value))
    ELSE [session |-> s, result |-> SessionDestroyedError]

\* Session::remove that marks the session Changed whatever the storage returned.
Session_remove_AlwaysChanged(s, key, ty) ==
    IF Session_active(s)
    THEN LET r == Storage_remove(s, key, ty)
         IN  [session |-> [r.session EXCEPT !.status = "Changed"], result |-> r.result]
    ELSE [session |-> s, result |-> SessionDestroyedError]

\* Session::remove without the active() guard.
Session_remove_NoGuard(s, key, ty) ==
    LET r == Storage_remove(s, key, ty)
    IN  IF r.result.kind = "Ok"
        THEN [session |-> [r.session EXCEPT !.status = "Changed"], result |-> r.result]
        ELSE r

\* Session::remove that marks the session Changed only when a value came out.
Session_remove_ChangedOnSome(s, key, ty) ==
    IF Session_active(s)
    THEN LET r == Storage_remove(s, key, ty)
         IN  IF r.result.kind = "Ok" /\ r.result.some
             THEN [session |-> [r.session EXCEPT !.status = "Changed"], result |-> r.result]
             ELSE r
    ELSE [session |-> s, result |-> SessionDestroyedError]

Session_remove(s, key, ty) ==
    IF Session_active(s)
    THEN MarkChanged(Storage_remove(s, key, ty))
    ELSE [session |-> s, result |-> SessionDestroyedError]

\* Session::get that takes the value out of the state, as remove does.
Session_get_Taking(s, key, ty) ==
    IF Session_active(s)
    THEN Storage_remove(s, key, ty)
    ELSE [session |-> s, result |-> SessionDestroyedError]

Session_get(s, key, ty) ==
    IF Session_active(s)
    THEN Storage_get(s, key, ty)
    ELSE [session |-> s, result |-> SessionDestroyedError]

\* impl From<Session> for SessionState
SessionState_from(s) == s.state

\* From<SessionState> for Session that starts from the default (empty) state.
Session_from_Default(m) == [state |-> EmptyState, status |-> DefaultStatus]

\* From<SessionState> for Session that marks a non-empty state as Changed.
Session_from_Dirty(m) ==
    [state |-> m, status |-> IF m = EmptyState THEN DefaultStatus ELSE "Changed"]

\* impl From<SessionState> for Session
Session_from(m) == [state |-> m, status |-> DefaultStatus]

(***************************************************************************)
(* The persisted form of a SessionState (derive Serialize, Deserialize on  *)
(* SessionState(HashMap<String, String>)): a JSON object with one field    *)
(* per key, each field value the JSON string literal of the stored text.   *)
(***************************************************************************)
EncodeState(m) == [k \in DOMAIN m |-> to_string(Str(m[k])).raw]

DecodeState(blob) ==
    IF \A k \in DOMAIN blob : ParseString(blob[k]).ok
    THEN [ok |-> TRUE, state |-> [k \in DOMAIN blob |-> ParseString(blob[k]).val.s]]
    ELSE [ok |-> FALSE, state |-> EmptyState]

(***************************************************************************)
(* SessionStore: the backend is a map from SessionKey to persisted state.  *)
(* Every handle reads and writes the one backend, so an operation is a     *)
(* function of the backend alone.                                          *)
(***************************************************************************)
SessionKeys == {"sid1", "sid2"}

EmptyBackend == [x \in {} |-> EmptyState]

StoreOk == [kind |-> "Ok", some |-> FALSE, state |-> EmptyState]

StoreSome(m) == [kind |-> "Ok", some |-> TRUE, state |-> m]

StoreError == [kind |-> "StoreError", some |-> FALSE, state |-> EmptyState]

SessionStore_load(b, key) ==
    IF key \notin DOMAIN b THEN StoreOk
    ELSE LET d == DecodeState(b[key])
         IN  IF d.ok THEN StoreSome(d.state) ELSE StoreError

\* save that merges the fields of the new state into the stored entry.
SessionStore_save_Merge(b, key, m, up) ==
    IF ~up THEN [backend |-> b, result |-> StoreError]
    ELSE LET old == IF key \in DOMAIN b THEN b[key] ELSE EncodeState(EmptyState)
             new == EncodeState(m)
         IN  [backend |-> [x \in DOMAIN b \cup {key} |->
                              IF x = key
                              THEN [k \in DOMAIN old \cup DOMAIN new |->
                                       IF k \in DOMAIN new THEN new[k] ELSE old[k]]
                              ELSE b[x]],
              result  |-> StoreOk]

\* save that leaves an entry already stored under the key as it is.
SessionStore_save_FirstWins(b, key, m, up) ==
    IF ~up THEN [backend |-> b, result |-> StoreError]
    ELSE [backend |-> [x \in DOMAIN b \cup {key} |->
                          IF x \in DOMAIN b THEN b[x] ELSE EncodeState(m)],
          result  |-> StoreOk]

\* up is FALSE when the backend cannot be reached: nothing is written.
SessionStore_save(b, key, m, up) ==
    IF ~up THEN [backend |-> b, result |-> StoreError]
    ELSE [backend |-> [x \in DOMAIN b \cup {key} |->
                          IF x = key THEN EncodeState(m) ELSE b[x]],
          result  |-> StoreOk]

SessionStore_remove(b, key) ==
    [backend |-> [x \in DOMAIN b \ {key} |-> b[x]], result |-> StoreOk]

(***************************************************************************)
(* The state machine: one Session built from a loaded SessionState, and    *)
(* a caller applying the public operations in any order.                   *)
(*   loaded   the SessionState the session was constructed from            *)
(*   last     the latest call: operation, key, type, argument, the session *)
(*            before it and the result it returned                         *)
(*   removed  keys whose latest successful typed remove returned Some and  *)
(*            that have not been inserted since                            *)
(*   mutations  "none" until insert or remove is first called, "attempted" *)
(*            while no such call has returned Ok, "succeeded" afterwards   *)
(***************************************************************************)
Session == [state |-> state, status |-> status]

RawValues == {to_string(v).raw : v \in EncodableValues}

SessionStates == UNION {[S -> RawValues] : S \in SUBSET Keys}

\* The states a session is constructed from: each key absent or holding the
\* text of an i64, of a String or of a non-finite f64.
LoadedRaws ==
    {to_string(v).raw : v \in {I64(42), Str(<<"\"", "\n">>), F64(<<"inf">>)}}

LoadedStates == UNION {[S -> LoadedRaws] : S \in SUBSET Keys}

Call(op, key, ty, arg, res) ==
    [op |-> op, key |-> key, ty |-> ty, arg |-> arg, pre |-> Session, res |-> res]

Init ==
    /\ loaded \in LoadedStates
    /\ state = Session_from(loaded).state
    /\ status = Session_from(loaded).status
    /\ last = [op |-> "from", key |-> "", ty |-> "", arg |-> Unit,
               pre |-> Session_from(loaded), res |-> OkUnit]
    /\ removed = {}
    /\ mutations = "none"
    /\ backend = EmptyBackend
    /\ req = [r \in {} |-> 0]
    /\ slast = [op |-> "none"]
    /\ saves = <<>>

\* The record of insert and remove calls after one that returned res.
Mutated(res) ==
    IF res.kind = "Ok" \/ mutations = "succeeded" THEN "succeeded" ELSE "attempted"

\* The session takes the state and status of r, what the call returned.
Inserted(key, value, r) ==
    /\ state' = r.session.state
    /\ status' = r.session.status
    /\ last' = Call("insert", key, value.ty, value, r.result)
    /\ removed' = IF r.result.kind = "Ok" THEN removed \ {key} ELSE removed
    /\ mutations' = Mutated(r.result)
    /\ UNCHANGED <<loaded, storeVars>>

Insert(key, value) == Inserted(key, value, Session_insert(Session, key, value))

Removed(key, ty, r) ==
    /\ state' = r.session.state
    /\ status' = r.session.status
    /\ last' = Call("remove", key, ty, Unit, r.result)
    /\ removed' = IF r.result.kind = "Ok" /\ r.result.some
                  THEN removed \cup {key} ELSE removed
    /\ mutations' = Mutated(r.result)
    /\ UNCHANGED <<loaded, storeVars>>

Remove(key, ty) == Removed(key, ty, Session_remove(Session, key, ty))

Got(key, ty, r) ==
    /\ state' = r.session.state
    /\ status' = r.session.status
    /\ last' = Call("get", key, ty, Unit, r.result)
    /\ UNCHANGED <<loaded, removed, mutations, storeVars>>

Get(key, ty) == Got(key, ty, Session_get(Session, key, ty))

Destroy ==
    LET s == Session_destroy(Session)
    IN  /\ state' = s.state
        /\ status' = s.status
        /\ last' = Call("destroy", "", "", Unit, OkUnit)
        /\ UNCHANGED <<loaded, removed, mutations, storeVars>>

Next ==
    \/ \E key \in Keys, value \in Values : Insert(key, value)
    \/ \E key \in Keys, ty \in Types : Remove(key, ty)
    \/ \E key \in Keys, ty \in Types : Get(key, ty)
    \/ Destroy

Spec == Init /\ [][Next]_vars

TypeOK ==
    /\ state \in SessionStates
    /\ status \in Statuses
    /\ loaded \in SessionStates
    /\ removed \subseteq Keys
    /\ mutations \in {"none", "attempted", "succeeded"}

(***************************************************************************)
(* The store under concurrent requests.  Each request takes a SessionKey,  *)
(* loads the state, wraps it in a Session, calls its operations and ends   *)
(* by the caller protocol: remove when the session is not active, save     *)
(* when it is Changed, nothing when it is Clean.                           *)
(*   backend  the backend's entries                                        *)
(*   req      per request: position, key, the state it loaded, its session *)
(*            and what it did at the end                                   *)
(*   slast    the latest store call: operation, key, state given, backend  *)
(*            before it, result                                            *)
(*   saves    the requests whose save succeeded, in order                  *)
(***************************************************************************)
Requests == {1, 2}

StoreValues == {I64(42), Str(<<"\"", "\n">>)}

InitialEntries == {EmptyState, [k \in {"user"} |-> to_string(I64(42)).raw]}

StoreCall(op, r, key, m, res) ==
    [op |-> op, by |-> r, key |-> key, state |-> m, before |-> backend, res |-> res]

StoreInit ==
    /\ state = EmptyState
    /\ status = DefaultStatus
    /\ loaded = EmptyState
    /\ last = [op |-> "none"]
    /\ removed = {}
    /\ mutations = "none"
    /\ backend \in UNION {[S -> {EncodeState(m) : m \in InitialEntries}] : S \in SUBSET SessionKeys}
    /\ req \in [Requests -> {[pc |-> "idle", key |-> k, loaded |-> EmptyState,
                              session |-> Session_from(EmptyState),
                              did |-> "none"] : k \in SessionKeys}]
    /\ slast = [op |-> "none", by |-> 0, key |-> "", state |-> EmptyState,
                before |-> backend, res |-> StoreOk]
    /\ saves = <<>>

ReqLoad(r) ==
    /\ req[r].pc = "idle"
    /\ LET res == SessionStore_load(backend, req[r].key)
       IN  /\ res.kind = "Ok"
           /\ req' = [req EXCEPT ![r].pc = "open",
                                 ![r].loaded = IF res.some THEN res.state ELSE EmptyState,
                                 ![r].session = Session_from(IF res.some THEN res.state
                                                             ELSE EmptyState)]
           /\ slast' = StoreCall("load", r, req[r].key, EmptyState, res)
    /\ UNCHANGED <<backend, saves, sessionVars>>

ReqInsert(r, key, value) ==
    /\ req[r].pc = "open"
    /\ req' = [req EXCEPT ![r].session = Session_insert(req[r].session, key, value).session]
    /\ UNCHANGED <<backend, slast, saves, sessionVars>>

ReqRemove(r, key, ty) ==
    /\ req[r].pc = "open"
    /\ req' = [req EXCEPT ![r].session = Session_remove(req[r].session, key, ty).session]
    /\ UNCHANGED <<backend, slast, saves, sessionVars>>

ReqDestroy(r) ==
    /\ req[r].pc = "open"
    /\ req' = [req EXCEPT ![r].session = Session_destroy(req[r].session)]
    /\ UNCHANGED <<backend, slast, saves, sessionVars>>

ReqFinish(r, up) ==
    /\ req[r].pc = "open"
    /\ LET s == req[r].session
           m == SessionState_from(s)
       IN  IF ~Session_active(s)
           THEN LET w == SessionStore_remove(backend, req[r].key)
                IN  /\ backend' = w.backend
                    /\ slast' = StoreCall("remove", r, req[r].key, EmptyState, w.result)
                    /\ req' = [req EXCEPT ![r].pc = "done", ![r].did = "remove"]
                    /\ UNCHANGED saves
           ELSE IF s.status = "Changed"
           THEN LET w == SessionStore_save(backend, req[r].key, m, up)
                IN  /\ backend' = w.backend
                    /\ slast' = StoreCall("save", r, req[r].key, m, w.result)
                    /\ req' = [req EXCEPT ![r].pc = "done",
                                          ![r].did = IF w.result.kind = "Ok" THEN "save"
                                                     ELSE "save failed"]
                    /\ saves' = IF w.result.kind = "Ok" THEN Append(saves, r) ELSE saves
           ELSE /\ req' = [req EXCEPT ![r].pc = "done", ![r].did = "skip"]
                /\ UNCHANGED <<backend, slast, saves>>
    /\ UNCHANGED sessionVars

StoreNext ==
    \/ \E r \in Requests : ReqLoad(r)
    \/ \E r \in Requests, key \in Keys, value \in StoreValues : ReqInsert(r, key, value)
    \/ \E r \in Requests, key \in Keys, ty \in Types : ReqRemove(r, key, ty)
    \/ \E r \in Requests : ReqDestroy(r)
    \/ \E r \in Requests, up \in BOOLEAN : ReqFinish(r, up)

StoreSpec == StoreInit /\ [][StoreNext]_vars

(***************************************************************************)
(* Properties                                                              *)
(***************************************************************************)
\* The stored text under the key of the latest call, before the call.
PreHas == last.key \in DOMAIN last.pre.state

PreDecoded == from_str(last.pre.state[last.key], last.ty)

\* C1: on a Destroyed session every insert, remove and get returns
\* SessionDestroyedError, whatever the value or the requested type, and the
\* key/value state is what it was before the call.
C1_DestroyedRejects ==
    (last.op \in {"insert", "remove", "get"} /\ last.pre.status = "Destroyed")
        => (last.res = SessionDestroyedError /\ state = last.pre.state)

\* A remove on a destroyed session of a key whose stored text does not decode
\* as the requested type.
C1_Witness ==
    /\ last.op = "remove"
    /\ last.pre.status = "Destroyed"
    /\ PreHas
    /\ ~PreDecoded.ok

\* C2 as stated, for every value insert accepts: after insert(k, v) returns
\* Ok, get::<T>(k) with T the type of v returns Some(v) and the status is
\* Changed.  Refuted by a non-finite f64: insert(k, f64::INFINITY) returns Ok
\* and stores null, and get::<f64>(k) then returns the decoder's error.
C2_InsertThenGetAnyValue ==
    (last.op = "insert" /\ last.res.kind = "Ok")
        => /\ Session_get(Session, last.key, last.ty).result = OkSome(last.arg)
           /\ status = "Changed"

\* The encoding of value decodes back, as the value's own type, to value.
RoundTrips(value) ==
    /\ to_string(value).ok
    /\ from_str(to_string(value).raw, value.ty) = [ok |-> TRUE, val |-> value]

\* C2: after insert(k, v) returns Ok the status is Changed and k holds the
\* encoding of v, whether or not k held a value before; when that encoding
\* decodes back to v as T, the type of v, get::<T>(k) returns Some(v); every
\* i64 and every String has such an encoding.
C2_InsertThenGet ==
    (last.op = "insert" /\ last.res.kind = "Ok")
        => /\ status = "Changed"
           /\ last.key \in DOMAIN state
           /\ state[last.key] = to_string(last.arg).raw
           /\ RoundTrips(last.arg)
                 => Session_get(Session, last.key, last.ty).result = OkSome(last.arg)
           /\ last.ty \in {"i64", "String"} => RoundTrips(last.arg)

\* An insert on a Clean session that overwrote a different value with one
\* that get then returns.
C2_Witness ==
    /\ last.op = "insert"
    /\ last.res.kind = "Ok"
    /\ last.pre.status = "Clean"
    /\ PreHas
    /\ last.pre.state[last.key] # state[last.key]
    /\ RoundTrips(last.arg)
    /\ Session_get(Session, last.key, last.ty).result = OkSome(last.arg)

\* C3: whenever the status is Clean, the key/value state is the state the
\* session was constructed from.
C3_CleanMeansUnmodified == (status = "Clean") => (state = loaded)

\* C4: on an active session, remove::<T>(k) of a key whose value does not
\* decode as T returns DeserializeError and still removes k, so a following
\* get of k returns None for every type.
C4_TypeMismatchRemoval ==
    (last.op = "remove" /\ Session_active(last.pre) /\ PreHas /\ ~PreDecoded.ok)
        => /\ last.res = DeserializeError
           /\ last.key \notin DOMAIN state
           /\ \A ty \in Types : Session_get(Session, last.key, ty).result = OkNone

\* A remove that returned DeserializeError for a stored i64 read as a String.
C4_Witness ==
    /\ last.op = "remove"
    /\ Session_active(last.pre)
    /\ PreHas
    /\ last.ty = "String"
    /\ from_str(last.pre.state[last.key], "i64").ok
    /\ last.res.kind = "DeserializeError"

\* C5: get changes neither the key/value state nor the status, whatever it
\* returns; after a get that failed to decode k, a get of k as a type the
\* stored text decodes as returns the stored value.
C5_GetIsPure ==
    (last.op = "get")
        => /\ state = last.pre.state
           /\ status = last.pre.status
           /\ (last.res.kind = "DeserializeError")
                => \A ty \in Types :
                     from_str(last.pre.state[last.key], ty).ok
                        => Session_get(Session, last.key, ty).result
                             = OkSome(from_str(last.pre.state[last.key], ty).val)

\* A get that failed to decode a stored value.
C5_Witness ==
    /\ last.op = "get"
    /\ PreHas
    /\ last.res.kind = "DeserializeError"

\* C6: in every step the status stays the same, or goes Clean -> Changed by
\* an insert or remove, or Clean/Changed -> Destroyed by destroy; so
\* Destroyed is terminal and Changed never reverts to Clean.
C6_StatusTransitions ==
    [][ \/ status' = status
        \/ (status = "Clean" /\ status' = "Changed" /\ last'.op \in {"insert", "remove"})
        \/ (status \in {"Clean", "Changed"} /\ status' = "Destroyed" /\ last'.op = "destroy")
      ]_vars

\* An insert of an encodable value attempted on a session that was changed
\* and then destroyed.
C6_Witness ==
    /\ status = "Destroyed"
    /\ last.op = "insert"
    /\ last.pre.status = "Destroyed"
    /\ to_string(last.arg).ok
    /\ state # loaded

\* C7: destroy twice gives the same status (Destroyed) and the same state as
\* destroy once, and every following insert, remove, get and active call
\* returns the same in both cases.
C7_DestroyIdempotent ==
    LET once  == Session_destroy(Session)
        twice == Session_destroy(once)
    IN  /\ once.status = "Destroyed"
        /\ twice.status = "Destroyed"
        /\ twice.state = once.state
        /\ Session_active(twice) = Session_active(once)
        /\ \A key \in Keys :
             /\ \A ty \in Types :
                  /\ Session_get(twice, key, ty) = Session_get(once, key, ty)
                  /\ Session_remove(twice, key, ty) = Session_remove(once, key, ty)
             /\ \A value \in Values :
                  Session_insert(twice, key, value) = Session_insert(once, key, value)
        /\ (last.op = "destroy" /\ last.pre.status = "Destroyed") => Session = last.pre

\* A second destroy, on a session that holds values.
C7_Witness ==
    /\ last.op = "destroy"
    /\ last.pre.status = "Destroyed"
    /\ state # EmptyState

\* C8: on an active session, remove::<T>(k) of a key that holds no value
\* returns Ok(None), leaves the key/value state unchanged and sets the status
\* to Changed.
C8_RemoveAbsent ==
    (last.op = "remove" /\ Session_active(last.pre) /\ ~PreHas)
        => /\ last.res = OkNone
           /\ state = last.pre.state
           /\ status = "Changed"

\* A remove of an absent key on a Clean session.
C8_Witness ==
    /\ last.op = "remove"
    /\ last.pre.status = "Clean"
    /\ ~PreHas

\* C9: on an active session, remove::<T>(k) of a key whose value decodes as T
\* returns Some(that value) and removes k; from then until k is inserted
\* again k stays absent, and remove::<T>(k) and get::<T>(k) on the active
\* session return None.
C9_RemoveDecodable ==
    /\ (last.op = "remove" /\ Session_active(last.pre) /\ PreHas /\ PreDecoded.ok)
          => /\ last.res = OkSome(PreDecoded.val)
             /\ last.key \notin DOMAIN state
             /\ last.key \in removed
    /\ \A k \in removed :
          /\ k \notin DOMAIN state
          /\ Session_active(Session)
                => \A ty \in Types :
                     /\ Session_get(Session, k, ty).result = OkNone
                     /\ Session_remove(Session, k, ty).result = OkNone
    /\ (last.op \in {"remove", "get"} /\ Session_active(last.pre)
            /\ last.key \in removed /\ ~PreHas)
          => last.res = OkNone

\* A second remove of a key, after the first returned its value and other
\* calls came in between.
C9_Witness ==
    /\ last.op = "remove"
    /\ last.key \in removed
    /\ ~PreHas
    /\ last.res = OkNone
    /\ state # EmptyState

\* C10: SessionState::from(Session::from(state)) = state for every state
\* reached by inserts and removes, and converting a session of any status
\* into a SessionState gives exactly its key/value mapping.
C10_RoundTrip ==
    /\ SessionState_from(Session_from(state)) = state
    /\ SessionState_from(Session_from(loaded)) = loaded
    /\ \A st \in Statuses :
          SessionState_from([Session_from(state) EXCEPT !.status = st]) = state

\* A state built by inserts and removes that is neither empty nor the loaded one.
C10_Witness ==
    /\ last.op = "remove"
    /\ last.res.some
    /\ state # EmptyState
    /\ state # loaded

\* C11: after save(key, state) succeeds, load(key) returns Some(state), the
\* saved state standing in place of whatever was stored under key; after
\* remove(key), load(key) returns None; remove of a key with no entry
\* returns Ok.
C11_StoreContract ==
    /\ (slast.op = "save" /\ slast.res.kind = "Ok")
          => SessionStore_load(backend, slast.key) = StoreSome(slast.state)
    /\ (slast.op = "remove")
          => /\ slast.res = StoreOk
             /\ SessionStore_load(backend, slast.key) = StoreOk

\* A save over an entry that held a key the saved state does not hold.
C11_Witness ==
    /\ slast.op = "save"
    /\ slast.res.kind = "Ok"
    /\ slast.key \in DOMAIN slast.before
    /\ \E k \in DOMAIN slast.before[slast.key] : k \notin DOMAIN slast.state

\* The request whose save under key succeeded last.
LastSaver(key) ==
    LET idx == {i \in 1 .. Len(saves) : req[saves[i]].key = key}
    IN  saves[CHOOSE i \in idx : \A j \in idx : j <= i]

\* C12: when two requests for one SessionKey both load, change their own
\* Session and save, in every interleaving the entry after both saves is the
\* state of the later save alone: keys only the earlier saver held are
\* absent, and an entry is never anything but the state of the latest save.
C12_LastSaveWins ==
    /\ (Len(saves) = 2 /\ req[saves[1]].key = req[saves[2]].key)
          => LET earlier == SessionState_from(req[saves[1]].session)
                 later   == SessionState_from(req[saves[2]].session)
                 got     == SessionStore_load(backend, req[saves[2]].key)
             IN  /\ got = StoreSome(later)
                 /\ \A k \in DOMAIN earlier \ DOMAIN later : k \notin DOMAIN got.state
    /\ \A key \in DOMAIN backend :
          (\E i \in 1 .. Len(saves) : req[saves[i]].key = key)
             => backend[key] = EncodeState(SessionState_from(req[LastSaver(key)].session))

\* Two saves under one key, the later saver having loaded before the earlier
\* one saved, and the earlier saver holding a key the later one lacks.
C12_Witness ==
    /\ Len(saves) = 2
    /\ req[saves[1]].key = req[saves[2]].key
    /\ req[saves[2]].loaded # SessionState_from(req[saves[1]].session)
    /\ \E k \in DOMAIN req[saves[1]].session.state : k \notin DOMAIN req[saves[2]].session.state

\* C13: on an active session, an insert of a value that cannot be encoded
\* returns SerializeError and leaves the key/value state, any prior value
\* under that key included, and the status as they were.
C13_InsertUnencodable ==
    (last.op = "insert" /\ Session_active(last.pre) /\ ~to_string(last.arg).ok)
        => /\ last.res = SerializeError
           /\ state = last.pre.state
           /\ status = last.pre.status

\* A failed insert on a Clean session under a key that holds a value.
C13_Witness ==
    /\ last.op = "insert"
    /\ last.pre.status = "Clean"
    /\ ~to_string(last.arg).ok
    /\ PreHas
    /\ last.res.kind = "SerializeError"

\* C14: the status is Changed only if some insert or remove call has
\* returned Ok since construction; a call that returns an error, and a get,
\* never moves the status from Clean to Changed.
C14_ChangedOnlyAfterOk ==
    /\ (status = "Changed") => (mutations = "succeeded")
    /\ (last.pre.status = "Clean" /\ (last.res.kind # "Ok" \/ last.op = "get"))
          => status # "Changed"

\* A remove that returned DeserializeError on a Clean session.
C14_Witness ==
    /\ last.op = "remove"
    /\ last.pre.status = "Clean"
    /\ last.res.kind = "DeserializeError"
    /\ mutations = "attempted"

\* C15: insert and remove on key k leave every other key k' as it was: the
\* stored value under k' and the result of get on k' for every type are the
\* same before and after the call, whether it succeeds or fails.
C15_OtherKeysUntouched ==
    (last.op \in {"insert", "remove"})
        => \A k \in Keys \ {last.key} :
             /\ SessionState_get(state, k) = SessionState_get(last.pre.state, k)
             /\ \A ty \in Types :
                  Storage_get(Session, k, ty).result
                      = Storage_get(last.pre, k, ty).result

\* A remove that failed to decode, on a session that holds another key.
C15_Witness ==
    /\ last.op = "remove"
    /\ last.res.kind = "DeserializeError"
    /\ \E k \in Keys \ {last.key} : k \in DOMAIN state

\* C16: destroy changes only the status; converting the destroyed session
\* into a SessionState gives the mapping held right before destroy.
C16_DestroyKeepsState ==
    (last.op = "destroy")
        => /\ status = "Destroyed"
           /\ state = last.pre.state
           /\ SessionState_from(Session) = SessionState_from(last.pre)

\* A destroy of a changed session that holds values.
C16_Witness ==
    /\ last.op = "destroy"
    /\ last.pre.status = "Changed"
    /\ last.pre.state # EmptyState

\* C17: a Session built from any SessionState starts Clean and active, and
\* until insert, remove or destroy is first called get(k) returns the decoded
\* value stored under k in that SessionState, None for an absent key.
C17_FreshSession ==
    /\ (last.op = "from") => (status = "Clean" /\ Session_active(Session))
    /\ (mutations = "none" /\ Session_active(Session))
          => \A k \in Keys, ty \in Types :
               Session_get(Session, k, ty).result
                   = DecodeOption(SessionState_get(loaded, k), ty)
    /\ (mutations = "none" /\ last.op = "get" /\ Session_active(last.pre))
          => last.res = DecodeOption(SessionState_get(loaded, last.key), last.ty)

\* A get on a fresh session built from a non-empty state that returned the
\* stored value.
C17_Witness ==
    /\ mutations = "none"
    /\ last.op = "get"
    /\ loaded # EmptyState
    /\ last.res.some

====
